---------------------------- MODULE Spec2Model ----------------------------
(***************************************************************************)
(* Loan amortization and prepayment-impact engine of interex_home_loan:    *)
(*   backend/app/utils/calculator.py   calculate_emi,                      *)
(*                                     generate_amortization_schedule,     *)
(*                                     calculate_prepayment_impact         *)
(*   backend/app/api/v1/calculator.py  calculate_prepayment (endpoint)     *)
(*                                                                         *)
(* One behaviour of Spec is one invocation of calculate_prepayment_impact:  *)
(* Call binds the arguments, the two calls of                              *)
(* generate_amortization_schedule run one loop iteration per step, and the *)
(* endpoint builds its response from the returned tuple.  RepeatSpec adds  *)
(* the clock read by datetime.now(), which advances at any moment, and a   *)
(* second invocation with the same arguments.  ConcSpec interleaves two    *)
(* invocations, EdgeSpec calls with arguments around zero and FineSpec     *)
(* with amounts below one cent.                                            *)
(*                                                                         *)
(* Around the engine: ReportSpec is GET /reports/generate/                 *)
(* (api/v1/reports.py, services/report_service.py), SimSpec the cycles of  *)
(* run_market_simulator (services/market_simulator.py) and                 *)
(* NegotiationSpec the create, approve and reject handlers of              *)
(* api/v1/negotiations.py and api/v1/admin.py.                             *)
(*                                                                         *)
(* Numbers.  The code computes with Python floats.  A money amount is      *)
(* modelled as an integer count of 1/SubCent of a cent (a fixed-point      *)
(* real); SubCent is chosen so that every product with the monthly rate    *)
(* and every division the bounded inputs lead to is exact, hence the model *)
(* computes the real-number value of each expression of the code.  The     *)
(* binary representation error of IEEE doubles is not modelled.  round(x,2)*)
(* is rounding to whole cents, an exact tie going to the even cent; which  *)
(* way Python rounds a computed half cent depends on the representation    *)
(* error of the double, so the rates of the model (monthly rate 0, 1/3 and *)
(* 1) are chosen such that amounts at a positive rate never are an exact   *)
(* half cent.                                                              *)
(***************************************************************************)
EXTENDS Integers, Naturals, Sequences, FiniteSets, TLC

(* ---------------------------- bounds ----------------------------------- *)
\* largest principal / EMI argument, in cents
MaxAmt == 8
\* largest remaining_tenure argument, in months
MaxTenure == 4
\* latest reading of the clock, in days
MaxClock == 1
\* largest principal / EMI argument of two interleaved invocations, in cents
MaxConcAmt == 2
\* their largest remaining_tenure argument, in months
MaxConcTenure == 2
\* largest size of an argument around zero, in cents and in months
MaxEdge == 1
\* largest amount, in thirds of a cent, of a call with amounts below a cent
MaxFine == 3
\* rows the table savings_reports can take
MaxReports == 3
\* requests GET /reports/generate/ served at a time
MaxHandlers == 2
\* cycles the market simulator runs
MaxCycles == 2
\* rows the table negotiation_requests can take
MaxNegotiations == 2
\* notifications the negotiation endpoints send
MaxNotifications == 1

(* ------------------------ number representation ------------------------ *)
\* resolution of a float below one cent: 3^8 for eight products with the
\* monthly rate 1/3, and with the factor 20 a multiple of 60 for
\* principal / tenure_months with a tenure up to 6
SubCent == (3 ^ 8) * 20

\* a whole number of cents as an amount
Cents(c) == c * SubCent

Abs(x) == IF x < 0 THEN -x ELSE x

RECURSIVE Gcd(_, _)
Gcd(a, b) == IF b = 0 THEN a ELSE Gcd(b, a % b)

RECURSIVE Pow(_, _)
Pow(b, n) == IF n <= 0 THEN 1 ELSE b * Pow(b, n - 1)

\* num / den (den > 0) rounded to the nearest integer, ties to even
RoundHalfEven(num, den) ==
    LET q == num \div den
        rem == num - q * den
    IN  IF 2 * rem > den THEN q + 1
        ELSE IF 2 * rem < den THEN q
        ELSE IF q % 2 = 0 THEN q ELSE q + 1

\* round(x, 2): the amount x in whole cents
Round2(x) == RoundHalfEven(x, SubCent)

\* monthly_rate = annual_rate / 12 / 100, as a fraction <<num, den>> in
\* lowest terms
MonthlyRate(annual_rate) ==
    LET g == Gcd(1200, annual_rate)
    IN  <<annual_rate \div g, 1200 \div g>>

\* x * monthly_rate for an amount x
TimesRate(x, r) == RoundHalfEven(x * r[1], r[2])

Min(a, b) == IF a <= b THEN a ELSE b


(* --------------------------- calculate_emi ----------------------------- *)
\* fault variant: a tenure of one month is refused as well
calculate_emi_raises_single(principal, annual_rate, tenure_months) ==
    tenure_months <= 1

\* calculate_emi divides by tenure_months (zero rate) or by
\* pow(1 + monthly_rate, tenure_months) - 1 (positive rate); both are zero
\* for tenure_months = 0 and Python raises ZeroDivisionError
calculate_emi_raises(principal, annual_rate, tenure_months) ==
    tenure_months = 0

\* fault variant: flat-rate instalment (principal + principal * r * n) / n
\* instead of the annuity payment
calculate_emi_flat(principal, annual_rate, tenure_months) ==
    LET r == MonthlyRate(annual_rate)
    IN  IF r[1] = 0
        THEN RoundHalfEven(principal, tenure_months)
        ELSE Cents(RoundHalfEven(principal * (r[2] + r[1] * tenure_months),
                                 r[2] * tenure_months * SubCent))

\* fault variant: the straight-line EMI of the zero-rate branch is rounded
\* to 2 decimals as well
calculate_emi_rounded(principal, annual_rate, tenure_months) ==
    LET r == MonthlyRate(annual_rate)
        A == Pow(r[2] + r[1], tenure_months)
        B == Pow(r[2], tenure_months)
    IN  IF r[1] = 0
        THEN Cents(RoundHalfEven(principal, tenure_months * SubCent))
        ELSE Cents(RoundHalfEven(principal * r[1] * A,
                                 r[2] * (A - B) * SubCent))

\* the value calculate_emi returns when it does not raise: principal /
\* tenure_months unrounded at zero rate, otherwise the annuity payment
\* P*r*(1+r)^n / ((1+r)^n - 1) rounded once to 2 decimals
calculate_emi(principal, annual_rate, tenure_months) ==
    LET r == MonthlyRate(annual_rate)
        A == Pow(r[2] + r[1], tenure_months)
        B == Pow(r[2], tenure_months)
    IN  IF r[1] = 0
        THEN RoundHalfEven(principal, tenure_months)
        ELSE Cents(RoundHalfEven(principal * r[1] * A,
                                 r[2] * (A - B) * SubCent))

(* ------------------ generate_amortization_schedule --------------------- *)
\* fault variant: the interest is not taken out of the instalment
PrincipalPaymentNoInterest(emi, interest, outstanding) ==
    Min(emi, outstanding)

\* fault variant: the interest is taken out of the instalment twice
PrincipalPaymentLessInterest(emi, interest, outstanding) ==
    Min(emi - 2 * interest, outstanding)

\* principal_payment = min(emi - interest, outstanding)
PrincipalPayment(emi, interest, outstanding) ==
    Min(emi - interest, outstanding)

\* fault variant: the principal payment is added to the balance
NextOutstandingAdded(outstanding, principal_payment) ==
    outstanding + principal_payment

\* outstanding -= principal_payment; if outstanding < 0: outstanding = 0
NextOutstanding(outstanding, principal_payment) ==
    LET o == outstanding - principal_payment
    IN  IF o < 0 THEN 0 ELSE o

\* fault variant: the balance is reduced by emi - interest with neither the
\* min nor the clamp at zero
StepOutstandingUnclamped(emi, outstanding, r) ==
    outstanding - (emi - TimesRate(outstanding, r))

\* the running (unrounded) balance after one iteration
StepOutstanding(emi, outstanding, r) ==
    LET interest == TimesRate(outstanding, r)
    IN  NextOutstanding(outstanding,
                        PrincipalPayment(emi, interest, outstanding))

\* fault variant: the row is built before the balance is updated and
\* records the balance at the start of the month
ScheduleRowStale(start, m, emi, outstanding, r) ==
    LET interest == TimesRate(outstanding, r)
    IN  [month |-> m,
         date |-> start + 30 * m,
         emi |-> emi,
         principal |->
             Round2(PrincipalPayment(emi, interest, outstanding)),
         interest |-> Round2(interest),
         outstanding |-> Round2(outstanding)]

\* fault variant: the month index is counted from the start date
ScheduleRowClockMonth(start, m, emi, outstanding, r) ==
    LET interest == TimesRate(outstanding, r)
    IN  [month |-> start + m,
         date |-> start + 30 * m,
         emi |-> emi,
         principal |->
             Round2(PrincipalPayment(emi, interest, outstanding)),
         interest |-> Round2(interest),
         outstanding |-> Round2(StepOutstanding(emi, outstanding, r))]

\* the AmortizationRow appended in one iteration; date = start_date +
\* timedelta(days=30 * month), dates being counted in days
ScheduleRow(start, m, emi, outstanding, r) ==
    LET interest == TimesRate(outstanding, r)
    IN  [month |-> m,
         date |-> start + 30 * m,
         emi |-> emi,
         principal |->
             Round2(PrincipalPayment(emi, interest, outstanding)),
         interest |-> Round2(interest),
         outstanding |-> Round2(StepOutstanding(emi, outstanding, r))]

\* fault variant: range(1, tenure_months + 2), one month too many
LoopContinuesOneMore(m, tenure_months) == m <= tenure_months + 1

\* fault variant: range(1, tenure_months), one month too few
LoopContinuesOneLess(m, tenure_months) == m < tenure_months

\* month in range(1, tenure_months + 1)
LoopContinues(m, tenure_months) == m <= tenure_months

\* fault variant: the break is taken on any balance that is not negative
LoopBreaksEager(outstanding) == outstanding >= 0

\* fault variant: the break tests outstanding < 0, which the clamp makes
\* impossible
LoopBreaksStrict(outstanding) == outstanding < 0

\* if outstanding <= 0: break
LoopBreaks(outstanding) == outstanding <= 0

(* -------------------- calculate_prepayment_impact ---------------------- *)
\* fault variant: the prepayment is added to the principal
NewPrincipalAdded(principal, prepayment_amount) ==
    principal + prepayment_amount

\* new_principal = principal - prepayment_amount
NewPrincipal(principal, prepayment_amount) == principal - prepayment_amount

\* if current_emi <= new_principal * monthly_rate: EMI not sufficient
EmiNotSufficient(emi, np, r) == emi <= TimesRate(np, r)

\* (1+r)^n >= emi / (emi - np*r), for n >= 0, r = a/b and emi > np*r,
\* cross-multiplied
PowReaches(n, emi, np, r) ==
    Pow(r[2] + r[1], n) * (emi * r[2] - np * r[1])
        >= Pow(r[2], n) * emi * r[2]

\* (1+r)^m <= (emi - np*r) / emi, for m >= 0, cross-multiplied
PowWithin(m, emi, np, r) ==
    Pow(r[2] + r[1], m) * emi * r[2]
        <= Pow(r[2], m) * (emi * r[2] - np * r[1])

RECURSIVE CeilLogUp(_, _, _, _)
CeilLogUp(n, emi, np, r) ==
    IF PowReaches(n, emi, np, r) THEN n ELSE CeilLogUp(n + 1, emi, np, r)

RECURSIVE FloorLogDown(_, _, _, _)
FloorLogDown(m, emi, np, r) ==
    IF PowWithin(m + 1, emi, np, r)
    THEN FloorLogDown(m + 1, emi, np, r) ELSE m

\* math.ceil(math.log(emi / (emi - np*r)) / math.log(1 + r)): the least
\* integer n with (1+r)^n >= emi / (emi - np*r); n <= 0 when np <= 0.
\* The ratio is evaluated on emi and np divided by their common divisor.
TenureByLog(emi, np, r) ==
    LET g == Gcd(emi, Abs(np))
    IN  IF np > 0 THEN CeilLogUp(0, emi \div g, np \div g, r)
        ELSE -FloorLogDown(0, emi \div g, np \div g, r)

\* int(new_principal / current_emi): the quotient truncated towards zero
TenureStraightLine(emi, np) ==
    IF np >= 0 THEN np \div emi ELSE -((-np) \div emi)

\* the REDUCE_TENURE branch raises: at a positive rate with the guard false
\* emi - np * monthly_rate is positive, and math.log(emi / (emi - np *
\* monthly_rate)) raises ValueError for emi <= 0
reduced_tenure_raises(emi, np, r) ==
    /\ ~EmiNotSufficient(emi, np, r)
    /\ r[1] > 0
    /\ emi <= 0

\* fault variant: an insufficient EMI yields tenure 0 instead of the
\* unchanged tenure
ReducedTenureZeroFallback(emi, np, r, remaining_tenure) ==
    IF EmiNotSufficient(emi, np, r) THEN 0
    ELSE IF r[1] > 0 THEN TenureByLog(emi, np, r)
    ELSE TenureStraightLine(emi, np)

\* the REDUCE_TENURE branch: new_tenure
ReducedTenure(emi, np, r, remaining_tenure) ==
    IF EmiNotSufficient(emi, np, r) THEN remaining_tenure
    ELSE IF r[1] > 0 THEN TenureByLog(emi, np, r)
    ELSE TenureStraightLine(emi, np)

\* sum(row.interest for row in schedule), in cents
RECURSIVE SumInterest(_)
SumInterest(s) ==
    IF Len(s) = 0 THEN 0 ELSE Head(s).interest + SumInterest(Tail(s))

\* fault variant: the two totals are subtracted the wrong way round
InterestSavedReversed(before, after) ==
    SumInterest(after) - SumInterest(before)

\* fault variant: the total of the after-schedule is left out
InterestSavedBeforeOnly(before, after) == SumInterest(before)

\* interest_saved = total_interest_before - total_interest_after
InterestSaved(before, after) == SumInterest(before) - SumInterest(after)

(* --------------- the functions as a whole, called alone ---------------- *)
\* the rows generate_amortization_schedule appends from month m on, the
\* running balance being o
RECURSIVE RowsFrom(_, _, _, _, _, _)
RowsFrom(start, m, o, emi, r, tenure_months) ==
    IF ~LoopContinues(m, tenure_months) THEN <<>>
    ELSE LET row == ScheduleRow(start, m, emi, o, r)
             o2 == StepOutstanding(emi, o, r)
         IN  IF LoopBreaks(o2) THEN <<row>>
             ELSE <<row>> \o RowsFrom(start, m + 1, o2, emi, r,
                                      tenure_months)

\* generate_amortization_schedule(principal, annual_rate, emi,
\* tenure_months, start_date)
generate_amortization_schedule(P, rate, emi, tenure_months, start) ==
    RowsFrom(start, 1, P, emi, MonthlyRate(rate), tenure_months)

\* the tuple calculate_prepayment_impact returns when it does not raise,
\* the clock reading s0 at its first and s1 at its second call of
\* generate_amortization_schedule
calculate_prepayment_impact(P, rate, tenure, emi, pre, strat, s0, s1) ==
    LET before == generate_amortization_schedule(P, rate, emi, tenure, s0)
        np == NewPrincipal(P, pre)
        ne == IF strat = "reduce_emi" THEN calculate_emi(np, rate, tenure)
              ELSE emi
        nt == IF strat = "reduce_emi" THEN tenure
              ELSE ReducedTenure(emi, np, MonthlyRate(rate), tenure)
        after == generate_amortization_schedule(np, rate, ne, nt, s1)
    IN  <<ne, nt, InterestSaved(before, after), before, after>>


(* ------------------------------ state ---------------------------------- *)
VARIABLES
    principal,          \* argument: outstanding principal
    annual_rate,        \* argument: annual rate in percent
    remaining_tenure,   \* argument: months
    current_emi,        \* argument
    prepayment_amount,  \* argument
    strategy,           \* argument: "reduce_emi" | "reduce_tenure"
    pc,                 \* position in calculate_prepayment_impact / endpoint
    start_date,         \* start_date of the running schedule generation
    month,              \* its loop variable
    outstanding,        \* its running balance
    schedule,           \* its rows so far
    stopped,            \* its loop was left by break
    schedule_before,
    new_principal,
    new_emi,
    new_tenure,
    schedule_after,
    interest_saved,     \* in cents
    response,           \* PrepaymentResult of the endpoint, <<>> before
    now,                \* the clock datetime.now() reads, in days
    first,              \* what an earlier call with these arguments returned
    parked,             \* frame of a second invocation that is not running
    reports,            \* table savings_reports, in order of insertion
    report_req,         \* the requests GET /reports/generate/ being served
    loans,              \* table loans
    bank_rates,         \* table bank_rates
    notifications,      \* table notifications, in order of insertion
    sim,                \* the market simulator: its session and its cycle
    negotiations,       \* table negotiation_requests
    last_request        \* the last request to a negotiation endpoint

args == <<principal, annual_rate, remaining_tenure, current_emi,
          prepayment_amount, strategy>>
loop == <<start_date, month, outstanding, schedule, stopped>>
locals == <<schedule_before, new_principal, new_emi, new_tenure,
            schedule_after, interest_saved>>
\* the state outside the frame of the running invocation
\* the tables and the services around the engine
services == <<reports, report_req, loans, bank_rates, notifications, sim,
              negotiations, last_request>>
outside == <<parked, services>>
\* the engine and its invocations
engine == <<args, pc, loop, locals, response, now, first, parked>>
vars == <<args, pc, loop, locals, response, now, first, outside>>

REDUCE_EMI == "reduce_emi"
REDUCE_TENURE == "reduce_tenure"

\* annual rates whose monthly rate is 0, 1/3 and 1
Rates == {0, 400, 1200}

\* Optional[...] values of the response
None == <<>>
Some(v) == <<v>>

\* the arguments of the schedule generation that is running
\* fault variant: the second schedule is generated with the original EMI
GenEmiCurrent == current_emi

GenEmi == IF pc = "before" THEN current_emi ELSE new_emi
GenTenure == IF pc = "before" THEN remaining_tenure ELSE new_tenure
GenPrincipal == IF pc = "before" THEN principal ELSE new_principal

\* the for loop of the running schedule generation is over
LoopOver == stopped \/ ~LoopContinues(month, GenTenure)

\* empty tables, no request in flight, the simulator not started
NoServices ==
    /\ reports = <<>>
    /\ report_req = <<>>
    /\ loans = <<>>
    /\ bank_rates = <<>>
    /\ notifications = <<>>
    /\ sim = <<>>
    /\ negotiations = <<>>
    /\ last_request = <<>>

\* the engine has not been called
EngineIdle ==
    /\ principal = 0
    /\ annual_rate = 0
    /\ remaining_tenure = 0
    /\ current_emi = 0
    /\ prepayment_amount = 0
    /\ strategy = "unset"
    /\ pc = "idle"
    /\ start_date = 0
    /\ month = 1
    /\ outstanding = 0
    /\ schedule = <<>>
    /\ stopped = FALSE
    /\ schedule_before = <<>>
    /\ new_principal = 0
    /\ new_emi = 0
    /\ new_tenure = 0
    /\ schedule_after = <<>>
    /\ interest_saved = 0
    /\ response = None
    /\ now = 0
    /\ first = None
    /\ parked = <<>>

\* nothing has been called yet
Init == EngineIdle /\ NoServices

(* ----------------------------- actions --------------------------------- *)
\* calculate_prepayment_impact is entered with its six arguments and calls
\* generate_amortization_schedule(principal, annual_rate, current_emi,
\* remaining_tenure)
CallOf(principals, emis, prepayments, tenures) ==
    /\ pc = "idle"
    /\ principal' \in principals
    /\ annual_rate' \in Rates
    /\ remaining_tenure' \in tenures
    /\ current_emi' \in emis
    /\ prepayment_amount' \in prepayments
    /\ strategy' \in {REDUCE_EMI, REDUCE_TENURE}
    /\ pc' = "before"
    /\ start_date' = now
    /\ month' = 1
    /\ outstanding' = principal'
    /\ schedule' = <<>>
    /\ stopped' = FALSE
    /\ UNCHANGED <<locals, response, now, first, outside>>

\* a call whose amounts are whole numbers of cents
CallWith(amounts, prepayments, tenures) ==
    CallOf({Cents(c) : c \in amounts}, {Cents(c) : c \in amounts},
           {Cents(c) : c \in prepayments}, tenures)

\* a call with arguments up to the bounds
Call == CallWith(1..MaxAmt, 1..(MaxAmt + 1), 0..MaxTenure)

\* one iteration of "for month in range(1, tenure_months + 1)"
LoopIteration ==
    /\ pc \in {"before", "after"}
    /\ ~LoopOver
    /\ LET r == MonthlyRate(annual_rate)
       IN  /\ schedule' = Append(schedule,
                                 ScheduleRow(start_date, month, GenEmi,
                                             outstanding, r))
           /\ outstanding' = StepOutstanding(GenEmi, outstanding, r)
    /\ stopped' = LoopBreaks(outstanding')
    /\ month' = month + 1
    /\ UNCHANGED <<args, pc, start_date, locals, response, now, first, outside>>

\* "return schedule" of the call that computes schedule_before
ReturnBefore ==
    /\ pc = "before"
    /\ LoopOver
    /\ schedule_before' = schedule
    /\ pc' = "branch"
    /\ UNCHANGED <<args, loop, new_principal, new_emi, new_tenure,
                   schedule_after, interest_saved, response, now, first, outside>>

\* new_principal = principal - prepayment_amount; REDUCE_EMI branch up to
\* the call that computes schedule_after
ReduceEmi ==
    /\ pc = "branch"
    /\ strategy = REDUCE_EMI
    /\ LET np == NewPrincipal(principal, prepayment_amount)
       IN  /\ new_principal' = np
           /\ IF calculate_emi_raises(np, annual_rate, remaining_tenure)
              THEN /\ pc' = "raised"
                   /\ UNCHANGED <<new_emi, new_tenure, loop>>
              ELSE /\ new_emi' = calculate_emi(np, annual_rate,
                                               remaining_tenure)
                   /\ new_tenure' = remaining_tenure
                   /\ pc' = "after"
                   /\ start_date' = now
                   /\ month' = 1
                   /\ outstanding' = np
                   /\ schedule' = <<>>
                   /\ stopped' = FALSE
    /\ UNCHANGED <<args, schedule_before, schedule_after, interest_saved,
                   response, now, first, outside>>

\* REDUCE_TENURE branch up to the call that computes schedule_after
ReduceTenure ==
    /\ pc = "branch"
    /\ strategy = REDUCE_TENURE
    /\ LET np == NewPrincipal(principal, prepayment_amount)
       IN  /\ new_principal' = np
           /\ new_emi' = current_emi
           /\ IF reduced_tenure_raises(current_emi, np,
                                       MonthlyRate(annual_rate))
              THEN /\ pc' = "raised"
                   /\ UNCHANGED <<new_tenure, loop>>
              ELSE /\ new_tenure' = ReducedTenure(current_emi, np,
                                                  MonthlyRate(annual_rate),
                                                  remaining_tenure)
                   /\ pc' = "after"
                   /\ start_date' = now
                   /\ month' = 1
                   /\ outstanding' = np
                   /\ schedule' = <<>>
                   /\ stopped' = FALSE
    /\ UNCHANGED <<args, schedule_before, schedule_after, interest_saved,
                   response, now, first, outside>>

\* "return schedule" of the second call, the interest sums and the return
\* of calculate_prepayment_impact
ReturnImpact ==
    /\ pc = "after"
    /\ LoopOver
    /\ schedule_after' = schedule
    /\ interest_saved' = InterestSaved(schedule_before, schedule)
    /\ pc' = "returned"
    /\ UNCHANGED <<args, loop, schedule_before, new_principal, new_emi,
                   new_tenure, response, now, first, outside>>

\* PrepaymentCalculation: every numeric field is Field(gt=0)
ValidRequest ==
    /\ principal > 0
    /\ annual_rate > 0
    /\ remaining_tenure > 0
    /\ current_emi > 0
    /\ prepayment_amount > 0

\* fault variant: the date of the first row is taken
NewClosureDateFirstRow(after) ==
    IF Len(after) > 0 THEN Some(after[1].date) ELSE None

\* new_closure_date = schedule_after[-1].date if schedule_after else None
NewClosureDate(after) ==
    IF Len(after) > 0 THEN Some(after[Len(after)].date) ELSE None

\* fault variant: the reduction is computed whatever the strategy
TenureReducedAlways(strat, remaining, tenure) == Some(remaining - tenure)

\* tenure_reduced = None; if strategy == REDUCE_TENURE: tenure_reduced =
\* remaining_tenure_months - new_tenure
TenureReduced(strat, remaining, tenure) ==
    IF strat = REDUCE_TENURE THEN Some(remaining - tenure) ELSE None

\* the endpoint calculate_prepayment, from the returned tuple to the
\* PrepaymentResult
Respond ==
    /\ pc = "returned"
    /\ ValidRequest
    /\ response' = Some(
         [new_emi |-> IF strategy = REDUCE_EMI THEN Some(new_emi) ELSE None,
          new_tenure_months |->
              IF strategy = REDUCE_TENURE THEN Some(new_tenure) ELSE None,
          interest_saved |-> interest_saved,
          tenure_reduced |->
              TenureReduced(strategy, remaining_tenure, new_tenure),
          new_closure_date |-> NewClosureDate(schedule_after),
          amortization_before |-> schedule_before,
          amortization_after |-> schedule_after])
    /\ pc' = "done"
    /\ UNCHANGED <<args, loop, locals, now, first, outside>>

Next ==
    \/ Call
    \/ LoopIteration
    \/ ReturnBefore
    \/ ReduceEmi
    \/ ReduceTenure
    \/ ReturnImpact
    \/ Respond

Spec == Init /\ [][Next]_vars

\* the interpreter runs the call to its end
FairSpec == Spec /\ WF_vars(Next)

(* --------------------------- repeated calls ---------------------------- *)
\* a day passes on the clock that datetime.now() reads
Tick ==
    /\ now < MaxClock
    /\ now' = now + 1
    /\ UNCHANGED <<args, pc, loop, locals, response, first, outside>>

\* what calculate_prepayment_impact returns
Result ==
    <<new_emi, new_tenure, interest_saved, schedule_before, schedule_after>>

\* calculate_prepayment_impact has returned and is called once more with
\* the same six arguments; the earlier result is kept for comparison
CallAgain ==
    /\ pc = "returned"
    /\ first = None
    /\ first' = Some(Result)
    /\ pc' = "before"
    /\ start_date' = now
    /\ month' = 1
    /\ outstanding' = principal
    /\ schedule' = <<>>
    /\ stopped' = FALSE
    /\ schedule_before' = <<>>
    /\ new_principal' = 0
    /\ new_emi' = 0
    /\ new_tenure' = 0
    /\ schedule_after' = <<>>
    /\ interest_saved' = 0
    /\ UNCHANGED <<args, response, now, outside>>

RepeatNext ==
    \/ Next
    \/ Tick
    \/ CallAgain

\* calls repeated while the clock runs
RepeatSpec == Init /\ [][RepeatNext]_vars

(* ----------------------- interleaved invocations ----------------------- *)
\* the frame of the running invocation: its arguments, its position, its
\* locals and those of its generate_amortization_schedule call, its response
Frame ==
    [principal |-> principal, annual_rate |-> annual_rate,
     remaining_tenure |-> remaining_tenure, current_emi |-> current_emi,
     prepayment_amount |-> prepayment_amount, strategy |-> strategy,
     pc |-> pc, start_date |-> start_date, month |-> month,
     outstanding |-> outstanding, schedule |-> schedule,
     stopped |-> stopped, schedule_before |-> schedule_before,
     new_principal |-> new_principal, new_emi |-> new_emi,
     new_tenure |-> new_tenure, schedule_after |-> schedule_after,
     interest_saved |-> interest_saved, response |-> response]

\* the frame of an invocation that has not started
IdleFrame ==
    [principal |-> 0, annual_rate |-> 0, remaining_tenure |-> 0,
     current_emi |-> 0, prepayment_amount |-> 0, strategy |-> "unset",
     pc |-> "idle", start_date |-> 0, month |-> 1, outstanding |-> 0,
     schedule |-> <<>>, stopped |-> FALSE, schedule_before |-> <<>>,
     new_principal |-> 0, new_emi |-> 0, new_tenure |-> 0,
     schedule_after |-> <<>>, interest_saved |-> 0, response |-> None]

\* a second request arrives while the first is being served
Accept ==
    /\ parked = None
    /\ parked' = Some(IdleFrame)
    /\ UNCHANGED <<args, pc, loop, locals, response, now, first, services>>

\* fault variant: the list `schedule` is one object shared by the two
\* invocations and stays where it is
SwitchSharedSchedule ==
    /\ parked # None
    /\ parked' = Some(Frame)
    /\ LET f == parked[1]
       IN  /\ principal' = f.principal
           /\ annual_rate' = f.annual_rate
           /\ remaining_tenure' = f.remaining_tenure
           /\ current_emi' = f.current_emi
           /\ prepayment_amount' = f.prepayment_amount
           /\ strategy' = f.strategy
           /\ pc' = f.pc
           /\ start_date' = f.start_date
           /\ month' = f.month
           /\ outstanding' = f.outstanding
           /\ schedule' = schedule
           /\ stopped' = f.stopped
           /\ schedule_before' = f.schedule_before
           /\ new_principal' = f.new_principal
           /\ new_emi' = f.new_emi
           /\ new_tenure' = f.new_tenure
           /\ schedule_after' = f.schedule_after
           /\ interest_saved' = f.interest_saved
           /\ response' = f.response
    /\ UNCHANGED <<now, first, services>>

\* the scheduler suspends the running invocation and resumes the other;
\* every name of the code is a local of its frame
Switch ==
    /\ parked # None
    /\ parked' = Some(Frame)
    /\ LET f == parked[1]
       IN  /\ principal' = f.principal
           /\ annual_rate' = f.annual_rate
           /\ remaining_tenure' = f.remaining_tenure
           /\ current_emi' = f.current_emi
           /\ prepayment_amount' = f.prepayment_amount
           /\ strategy' = f.strategy
           /\ pc' = f.pc
           /\ start_date' = f.start_date
           /\ month' = f.month
           /\ outstanding' = f.outstanding
           /\ schedule' = f.schedule
           /\ stopped' = f.stopped
           /\ schedule_before' = f.schedule_before
           /\ new_principal' = f.new_principal
           /\ new_emi' = f.new_emi
           /\ new_tenure' = f.new_tenure
           /\ schedule_after' = f.schedule_after
           /\ interest_saved' = f.interest_saved
           /\ response' = f.response
    /\ UNCHANGED <<now, first, services>>

\* a call with the arguments of interleaved invocations: a prepayment of
\* one cent
ConcCall == CallWith(1..MaxConcAmt, {1}, 1..MaxConcTenure)

ConcNext ==
    \/ ConcCall
    \/ LoopIteration
    \/ ReturnBefore
    \/ ReduceEmi
    \/ ReduceTenure
    \/ ReturnImpact
    \/ Respond
    \/ Accept
    \/ Switch

\* two invocations, interleaved step by step
ConcSpec == Init /\ [][ConcNext]_vars

(* ------------------------ arguments around zero ------------------------ *)
\* a call of the engine itself, which does not validate: zero and negative
\* amounts, tenure zero
EdgeCall ==
    CallWith((-MaxEdge)..MaxEdge, (-MaxEdge)..MaxEdge, 0..MaxEdge)

EdgeNext ==
    \/ EdgeCall
    \/ LoopIteration
    \/ ReturnBefore
    \/ ReduceEmi
    \/ ReduceTenure
    \/ ReturnImpact

\* one invocation with arguments around zero
EdgeSpec == Init /\ [][EdgeNext]_vars

(* ------------------------ amounts below one cent ----------------------- *)
\* The arguments are floats: a principal, EMI or prepayment need not be a
\* whole number of cents.  Amounts here are thirds of a cent.
ThirdCents(c) == c * (SubCent \div 3)

FineCall ==
    CallOf({ThirdCents(c) : c \in 1..MaxFine},
           {ThirdCents(c) : c \in 0..MaxFine},
           {ThirdCents(c) : c \in 1..MaxFine}, 0..MaxTenure)

FineNext ==
    \/ FineCall
    \/ LoopIteration
    \/ ReturnBefore
    \/ ReduceEmi
    \/ ReduceTenure
    \/ ReturnImpact
    \/ Respond

FineSpec == Init /\ [][FineNext]_vars

(* --------------------------- savings reports --------------------------- *)
\* GET /reports/generate/ of api/v1/reports.py and
\* ReportService.generate_report.  A row of savings_reports is modelled by
\* its id and its key (user_id, report_type, period); the totals and the
\* narrative of a report are not modelled.  Every request runs in a session
\* of its own; the handler is a coroutine that is suspended at each await,
\* so other requests run between its SELECT and its INSERT.
Users == {"u1", "u2"}
ReportTypes == {"monthly", "annual"}
Periods == {"2025-01", "2025"}
\* len(period)
PeriodLength(p) == IF p = "2025-01" THEN 7 ELSE 4
\* now.strftime("%Y-%m") and now.strftime("%Y") when no period is given
\* ("if not period": the parameter is absent or the empty string)
CurrentPeriod(report_type) ==
    IF report_type = "monthly" THEN "2025-01" ELSE "2025"

Handlers == 1..MaxHandlers
IdleRequest ==
    [pc |-> "idle", user_id |-> "", report_type |-> "", period |-> "",
     returned |-> 0]

\* the rows the SELECT of the existence check matches
ExistingReports(user_id, report_type, period) ==
    {i \in 1..Len(reports) :
        /\ reports[i].user_id = user_id
        /\ reports[i].report_type = report_type
        /\ reports[i].period = period}

\* the period is well formed for the report type
ValidPeriod(report_type, period) ==
    /\ report_type = "monthly" => PeriodLength(period) = 7
    /\ report_type = "annual" => PeriodLength(period) = 4

\* the handler up to its first suspension after the existence check:
\* 400 for a malformed period, the stored report if there is one,
\* MultipleResultsFound of scalar_one_or_none() if there are several,
\* otherwise on to ReportService.generate_report
GenerateReportCheck ==
    \E h \in Handlers, u \in Users, t \in ReportTypes,
       given \in Periods \cup {""} :
        /\ report_req[h].pc # "generating"
        /\ Len(reports)
             + Cardinality({g \in Handlers :
                              report_req[g].pc = "generating"})
             < MaxReports
        /\ LET period == IF given = "" THEN CurrentPeriod(t) ELSE given
               found == ExistingReports(u, t, period)
               req == [pc |-> "idle", user_id |-> u, report_type |-> t,
                       period |-> period, returned |-> 0]
           IN  report_req' =
                 [report_req EXCEPT ![h] =
                    IF ~ValidPeriod(t, period)
                        THEN [req EXCEPT !.pc = "refused"]
                    ELSE IF Cardinality(found) > 1
                        THEN [req EXCEPT !.pc = "failed"]
                    ELSE IF Cardinality(found) = 1
                        THEN [req EXCEPT !.pc = "returned",
                                         !.returned =
                                            reports[CHOOSE i \in found :
                                                      TRUE].id]
                    ELSE [req EXCEPT !.pc = "generating"]]
        /\ UNCHANGED <<engine, reports, loans, bank_rates, notifications,
                       sim, negotiations, last_request>>

\* ReportService.generate_report from self.db.add(report) on: the INSERT,
\* the commit, and the handler's answer
GenerateReportSave ==
    \E h \in Handlers :
        /\ report_req[h].pc = "generating"
        /\ LET id == Len(reports) + 1
           IN  /\ reports' = Append(reports,
                                [id |-> id,
                                 user_id |-> report_req[h].user_id,
                                 report_type |-> report_req[h].report_type,
                                 period |-> report_req[h].period])
               /\ report_req' = [report_req EXCEPT ![h].pc = "returned",
                                                   ![h].returned = id]
        /\ UNCHANGED <<engine, loans, bank_rates, notifications, sim,
                       negotiations, last_request>>

ReportInit ==
    /\ EngineIdle
    /\ reports = <<>>
    /\ report_req = [h \in Handlers |-> IdleRequest]
    /\ loans = <<>>
    /\ bank_rates = <<>>
    /\ notifications = <<>>
    /\ sim = <<>>
    /\ negotiations = <<>>
    /\ last_request = <<>>

ReportNext ==
    \/ GenerateReportCheck
    \/ GenerateReportSave

ReportSpec == ReportInit /\ [][ReportNext]_vars

(* --------------------------- market simulator -------------------------- *)
\* run_market_simulator of services/market_simulator.py.  An interest rate
\* is a whole number of thousandths of a percent: 8.4 is 8400.  The
\* simulator works on the objects of one session; what it changes reaches
\* the tables at a commit of that session, and NotificationService.
\* create_notification commits the session it is handed.
Banks == {"HDFC Bank", "SBI Home Loans"}
RateFloor == 6000
RateCeiling == 12000
RateStep == 50
\* random.choice([-0.05, 0.05, 0.00])
RateChanges == {-RateStep, RateStep, 0}

\* round(x, 2) of a rate
RoundRate(x) == 10 * RoundHalfEven(x, 10)

\* fault variant: the band is tested on the old rate
InBandOfOld(old_rate, new_rate) ==
    RateFloor <= old_rate /\ old_rate <= RateCeiling

\* 6.0 <= new_rate <= 12.0
InBand(old_rate, new_rate) ==
    RateFloor <= new_rate /\ new_rate <= RateCeiling

RECURSIVE FirstOccurrences(_, _)
\* the keys of a dict in the order of their first insertion
FirstOccurrences(names, seen) ==
    IF names = <<>> THEN <<>>
    ELSE IF Head(names) \in seen
        THEN FirstOccurrences(Tail(names), seen)
    ELSE <<Head(names)>>
            \o FirstOccurrences(Tail(names), seen \cup {Head(names)})

NamesOf(rows) == [i \in 1..Len(rows) |-> rows[i].bank_name]
IsActive(row) == row.is_active

\* bank_rate_source: from the BankRate entries, a later entry of a bank
\* replacing an earlier one; without entries from the active loans, the
\* first loan of a bank deciding (setdefault)
BankRateSource(entries, active) ==
    LET rows == IF entries # <<>> THEN entries ELSE active
        pick(S) == IF entries # <<>>
                   THEN CHOOSE i \in S : \A j \in S : j <= i
                   ELSE CHOOSE i \in S : \A j \in S : i <= j
    IN  [b \in {rows[i].bank_name : i \in 1..Len(rows)} |->
            rows[pick({i \in 1..Len(rows) : rows[i].bank_name = b})]
                .interest_rate]

SimAsleep(n, outcome) ==
    [pc |-> "sleeping", loans |-> <<>>, bank_rates |-> <<>>,
     added |-> <<>>, source |-> <<>>, todo_banks |-> <<>>,
     bank_name |-> "", new_rate |-> 0, todo_loans |-> <<>>,
     cycles |-> n, start |-> <<>>, outcome |-> outcome]

\* a cycle opens its session, fetches the active loans and the BankRate
\* entries and builds bank_rate_source; without an active loan the cycle is
\* over
SimCycleBegin ==
    /\ sim.pc = "sleeping"
    /\ sim.cycles < MaxCycles
    /\ LET active == SelectSeq(loans, IsActive)
           rows == IF bank_rates # <<>> THEN bank_rates ELSE active
       IN  sim' =
             IF active = <<>>
             THEN SimAsleep(sim.cycles + 1, "no loans")
             ELSE [pc |-> "running", loans |-> loans,
                   bank_rates |-> bank_rates, added |-> <<>>,
                   source |-> BankRateSource(bank_rates, active),
                   todo_banks |-> FirstOccurrences(NamesOf(rows), {}),
                   bank_name |-> "", new_rate |-> 0, todo_loans |-> <<>>,
                   cycles |-> sim.cycles,
                   start |-> <<loans, bank_rates, notifications>>,
                   outcome |-> "none"]
    /\ UNCHANGED <<engine, reports, report_req, loans, bank_rates,
                   notifications, negotiations, last_request>>

\* one iteration of "for bank_name, old_rate in bank_rate_source.items()"
\* up to the loop over the loans: the change is drawn, the new rate is
\* tested against the band and the BankRate entries of the bank are set
SimNextBank ==
    /\ sim.pc = "running"
    /\ sim.todo_loans = <<>>
    /\ sim.todo_banks # <<>>
    /\ \E change \in RateChanges :
         LET bank == Head(sim.todo_banks)
             old_rate == sim.source[bank]
             new_rate == RoundRate(old_rate + change)
         IN  sim' =
               IF change = 0 \/ ~InBand(old_rate, new_rate)
               THEN [sim EXCEPT !.todo_banks = Tail(@)]
               ELSE [sim EXCEPT
                       !.todo_banks = Tail(@),
                       !.bank_name = bank,
                       !.new_rate = new_rate,
                       !.bank_rates =
                          [i \in 1..Len(@) |->
                             IF @[i].bank_name = bank
                             THEN [@[i] EXCEPT !.interest_rate = new_rate]
                             ELSE @[i]],
                       !.todo_loans =
                          SelectSeq([i \in 1..Len(sim.loans) |-> i],
                                    LAMBDA i :
                                       /\ sim.loans[i].is_active
                                       /\ sim.loans[i].bank_name = bank)]
    /\ UNCHANGED <<engine, reports, report_req, loans, bank_rates,
                   notifications, negotiations, last_request>>

\* the notification notify_rate_change creates
RateChangeNotification(loan, bank, old_rate, new_rate) ==
    [user_id |-> loan.user_id, type |-> "bank_rate_change",
     bank_name |-> bank, old_rate |-> old_rate, new_rate |-> new_rate,
     loan_id |-> loan.id]

\* one iteration of "for loan in loans" for a loan of the bank: the loan's
\* rate is set and notify_rate_change is awaited; its create_notification
\* adds the notification and commits the session, which writes every
\* change the session holds
SimNextLoan ==
    /\ sim.pc = "running"
    /\ sim.todo_loans # <<>>
    /\ LET i == Head(sim.todo_loans)
           n == RateChangeNotification(sim.loans[i], sim.bank_name,
                                       sim.source[sim.bank_name],
                                       sim.new_rate)
           changed == [sim.loans EXCEPT ![i].interest_rate = sim.new_rate]
       IN  /\ sim' = [sim EXCEPT !.loans = changed,
                                 !.added = <<>>,
                                 !.todo_loans = Tail(@)]
           /\ loans' = changed
           /\ bank_rates' = sim.bank_rates
           /\ notifications' = notifications \o sim.added \o <<n>>
    /\ UNCHANGED <<engine, reports, report_req, negotiations,
                   last_request>>

\* "await db.commit()" at the end of the cycle
SimCycleCommit ==
    /\ sim.pc = "running"
    /\ sim.todo_loans = <<>>
    /\ sim.todo_banks = <<>>
    /\ loans' = sim.loans
    /\ bank_rates' = sim.bank_rates
    /\ notifications' = notifications \o sim.added
    /\ sim' = [SimAsleep(sim.cycles + 1, "committed")
                 EXCEPT !.start = sim.start]
    /\ UNCHANGED <<engine, reports, report_req, negotiations,
                   last_request>>

\* an exception somewhere in the cycle: "await db.rollback()" drops what
\* the session holds and has not committed
SimCycleRaise ==
    /\ sim.pc = "running"
    /\ sim' = [SimAsleep(sim.cycles + 1, "rolled back")
                 EXCEPT !.start = sim.start]
    /\ UNCHANGED <<engine, reports, report_req, loans, bank_rates,
                   notifications, negotiations, last_request>>

\* the rates the tables hold when the simulator starts
StartRates == {RateFloor, 8372, RateCeiling}

SimInit ==
    /\ EngineIdle
    /\ reports = <<>>
    /\ report_req = <<>>
    /\ \E r1 \in StartRates, b2 \in Banks, a1, a2 \in BOOLEAN :
         loans = <<[id |-> 1, user_id |-> "u1", bank_name |-> "HDFC Bank",
                    interest_rate |-> r1, is_active |-> a1],
                   [id |-> 2, user_id |-> "u2", bank_name |-> b2,
                    interest_rate |-> 8400, is_active |-> a2]>>
    /\ \E r3 \in StartRates :
         bank_rates \in {<<>>,
                         <<[bank_name |-> "SBI Home Loans",
                            interest_rate |-> r3]>>,
                         <<[bank_name |-> "HDFC Bank",
                            interest_rate |-> 8400],
                           [bank_name |-> "SBI Home Loans",
                            interest_rate |-> 8300],
                           [bank_name |-> "HDFC Bank",
                            interest_rate |-> r3]>>}
    /\ notifications = <<>>
    /\ sim = SimAsleep(0, "none")
    /\ negotiations = <<>>
    /\ last_request = <<>>

SimNext ==
    \/ SimCycleBegin
    \/ SimNextBank
    \/ SimNextLoan
    \/ SimCycleCommit
    \/ SimCycleRaise

SimSpec == SimInit /\ [][SimNext]_vars

(* ------------------------ negotiation requests ------------------------- *)
\* create, approve and reject of api/v1/negotiations.py and approve and
\* reject of api/v1/admin.py.  A row of negotiation_requests is modelled by
\* its id, its owner, its loan, its status and its admin_notes; the letter
\* and the rates of a request are not modelled.  last_request records the
\* request served last and the status code of its answer.
CUSTOMER == "customer"
ADMIN == "admin"
PENDING == "pending"
APPROVED == "approved"
REJECTED == "rejected"

\* users.role of the authenticated user
Accounts == {"u1", "u2", "a1"}
RoleOf(user) == IF user = "a1" THEN ADMIN ELSE CUSTOMER

\* NegotiationApproval.admin_notes; "" stands for a request without notes
AdminNotes == {"", "revise the target rate"}

\* Depends(require_admin) of the admin router lets the request through
RequireAdmin(user) == RoleOf(user) = ADMIN

\* fault variant: the role is compared with the wrong member
NotAdminIsAdmin(user) == RoleOf(user) = ADMIN

\* current_user.role != UserRole.ADMIN
NotAdmin(user) == RoleOf(user) # ADMIN

\* fault variant: a rejected request is open again
StatusOnRejectReopens == PENDING

\* the status reject_negotiation sets
StatusOnReject == REJECTED

\* the status approve_negotiation sets
StatusOnApprove == APPROVED

\* the row a SELECT by id finds, as a set of indices
NegotiationById(id) ==
    {i \in 1..Len(negotiations) : negotiations[i].id = id}

LoanById(id) == {i \in 1..Len(loans) : loans[i].id = id}

Served(op, router, user, code) ==
    [op |-> op, router |-> router, user |-> user, code |-> code]

\* POST /negotiations/: 404 unless the loan is the user's own, otherwise a
\* new row in status PENDING
CreateNegotiation ==
    \E user \in Accounts, loan_id \in 1..(Len(loans) + 1) :
        /\ Len(negotiations) < MaxNegotiations
        /\ LET found == {i \in LoanById(loan_id) :
                            loans[i].user_id = user}
               id == Len(negotiations) + 1
           IN  IF found = {}
               THEN /\ last_request' = Served("create", "negotiations",
                                              user, 404)
                    /\ UNCHANGED negotiations
               ELSE /\ negotiations' =
                         Append(negotiations,
                                [id |-> id, user_id |-> user,
                                 loan_id |-> loan_id, status |-> PENDING,
                                 admin_notes |-> ""])
                    /\ last_request' = Served("create", "negotiations",
                                              user, 201)
        /\ UNCHANGED <<engine, reports, report_req, loans, bank_rates,
                       notifications, sim>>

\* the notification notify_negotiation_update creates
NegotiationNotification(negotiation, status, bank, notes) ==
    [user_id |-> negotiation.user_id, type |-> "negotiation_update",
     negotiation_id |-> negotiation.id, bank_name |-> bank,
     status |-> status, admin_notes |-> notes]

\* PATCH /negotiations/{id}/approve/ and /reject/: 403 for a user who is
\* not an admin, 404 for an unknown id; otherwise the status and the notes
\* are set and committed, and the owner is notified if the loan is found
Review(op, new_status) ==
    \E user \in Accounts, id \in 1..MaxNegotiations, notes \in AdminNotes :
        LET found == NegotiationById(id)
        IN  IF NotAdmin(user)
            THEN /\ last_request' = Served(op, "negotiations", user, 403)
                 /\ UNCHANGED <<negotiations, notifications>>
            ELSE IF found = {}
            THEN /\ last_request' = Served(op, "negotiations", user, 404)
                 /\ UNCHANGED <<negotiations, notifications>>
            ELSE LET i == CHOOSE k \in found : TRUE
                     loan == LoanById(negotiations[i].loan_id)
                 IN  /\ Len(notifications) < MaxNotifications
                     /\ negotiations' =
                           [negotiations EXCEPT ![i].status = new_status,
                                                ![i].admin_notes = notes]
                     /\ notifications' =
                           IF loan = {} THEN notifications
                           ELSE Append(notifications,
                                  NegotiationNotification(
                                     negotiations[i], new_status,
                                     loans[CHOOSE k \in loan : TRUE]
                                        .bank_name,
                                     notes))
                     /\ last_request' = Served(op, "negotiations", user, 200)

ApproveNegotiation ==
    /\ Review("approve", StatusOnApprove)
    /\ UNCHANGED <<engine, reports, report_req, loans, bank_rates, sim>>

RejectNegotiation ==
    /\ Review("reject", StatusOnReject)
    /\ UNCHANGED <<engine, reports, report_req, loans, bank_rates, sim>>

\* POST /admin/negotiations/{id}/approve and /reject: require_admin, 404
\* for an unknown id; otherwise the status and the notes are set and
\* committed, without a notification
AdminReview(op, new_status) ==
    \E user \in Accounts, id \in 1..MaxNegotiations, notes \in AdminNotes :
        LET found == NegotiationById(id)
        IN  IF ~RequireAdmin(user)
            THEN /\ last_request' = Served(op, "admin", user, 403)
                 /\ UNCHANGED negotiations
            ELSE IF found = {}
            THEN /\ last_request' = Served(op, "admin", user, 404)
                 /\ UNCHANGED negotiations
            ELSE /\ negotiations' =
                       [negotiations EXCEPT
                          ![CHOOSE k \in found : TRUE].status = new_status,
                          ![CHOOSE k \in found : TRUE].admin_notes = notes]
                 /\ last_request' = Served(op, "admin", user, 200)

AdminApproveNegotiation ==
    /\ AdminReview("approve", StatusOnApprove)
    /\ UNCHANGED <<engine, reports, report_req, loans, bank_rates,
                   notifications, sim>>

AdminRejectNegotiation ==
    /\ AdminReview("reject", StatusOnReject)
    /\ UNCHANGED <<engine, reports, report_req, loans, bank_rates,
                   notifications, sim>>

NegotiationInit ==
    /\ EngineIdle
    /\ reports = <<>>
    /\ report_req = <<>>
    /\ loans = <<[id |-> 1, user_id |-> "u1", bank_name |-> "HDFC Bank",
                  interest_rate |-> 8400, is_active |-> TRUE],
                 [id |-> 2, user_id |-> "u2",
                  bank_name |-> "SBI Home Loans",
                  interest_rate |-> 8300, is_active |-> TRUE]>>
    /\ bank_rates = <<>>
    /\ notifications = <<>>
    /\ sim = <<>>
    /\ negotiations = <<>>
    /\ last_request = Served("none", "none", "u1", 0)

NegotiationNext ==
    \/ CreateNegotiation
    \/ ApproveNegotiation
    \/ RejectNegotiation
    \/ AdminApproveNegotiation
    \/ AdminRejectNegotiation

NegotiationSpec == NegotiationInit /\ [][NegotiationNext]_vars

TypeOK ==
    /\ pc \in {"idle", "before", "branch", "after", "returned", "done",
              "raised"}
    /\ month \in 1..100
    /\ outstanding \in Int
    /\ stopped \in BOOLEAN
    /\ new_tenure \in Int

\* every product with the monthly rate in the loop is exact
ArithExact ==
    LET r == MonthlyRate(annual_rate)
    IN  pc \in {"before", "after"} => (outstanding * r[1]) % r[2] = 0


(* ---------------------- vocabulary of the properties ------------------- *)
\* calculate_prepayment_impact has returned its tuple
Returned == pc \in {"returned", "done"}

\* a call of generate_amortization_schedule is about to return `schedule`
Finished == pc \in {"before", "after"} /\ LoopOver

LastRow(s) == s[Len(s)]

\* emi * ((1+r)^n - 1) - P * r * (1+r)^n for r = a/b, scaled by a positive
\* factor: its sign tells whether emi is above or below the exact annuity
\* payment P*r*(1+r)^n / ((1+r)^n - 1) of P over n months (P / n at zero
\* rate)
AnnuityExcess(emi, P, r, n) ==
    LET g == Gcd(Abs(emi), Abs(P))
        e == IF g = 0 THEN 0 ELSE emi \div g
        q == IF g = 0 THEN 0 ELSE P \div g
    IN  IF r[1] = 0 THEN e * n - q
        ELSE e * r[2] * (Pow(r[2] + r[1], n) - Pow(r[2], n))
                 - q * r[1] * Pow(r[2] + r[1], n)

\* emi is at least the exact annuity payment
AtLeastAnnuity(emi, P, r, n) == AnnuityExcess(emi, P, r, n) >= 0

\* emi is at most the exact annuity payment
AtMostAnnuity(emi, P, r, n) == AnnuityExcess(emi, P, r, n) <= 0

\* 0 < p < principal and the current EMI pays the original loan off within
\* remaining_tenure
SanePrepayment ==
    /\ 0 < prepayment_amount
    /\ prepayment_amount < principal
    /\ remaining_tenure > 0
    /\ AtLeastAnnuity(current_emi, principal, MonthlyRate(annual_rate),
                      remaining_tenure)

(* ------------------------------- C1 ------------------------------------ *)
\* C1 as stated: for 0 < p < principal and a current EMI that amortizes the
\* original loan, interest_saved >= 0 under both strategies.
C1_InterestSavedNonNegative ==
    (Returned /\ SanePrepayment) => interest_saved >= 0

\* C1 amended: for 0 < p < principal and a current EMI that amortizes the
\* original loan, interest_saved >= 0 under REDUCE_TENURE (under REDUCE_EMI
\* the EMI is recomputed over the whole remaining tenure and rounded, and
\* the interest of the after-schedule can exceed that of the
\* before-schedule).
C1_InterestSavedReduceTenure ==
    (Returned /\ SanePrepayment /\ strategy = REDUCE_TENURE)
        => interest_saved >= 0

\* C1 witness: a REDUCE_TENURE prepayment on an amortizing loan at a
\* positive rate has returned with interest saved
C1_Witness ==
    /\ pc = "returned"
    /\ SanePrepayment
    /\ strategy = REDUCE_TENURE
    /\ annual_rate > 0
    /\ Len(schedule_after) >= 1
    /\ interest_saved > 0

(* ------------------------------- C2 ------------------------------------ *)
\* C2: under REDUCE_TENURE, whenever current_emi > new_principal *
\* monthly_rate, new_tenure <= remaining_tenure and the endpoint's
\* tenure_reduced is not negative.
C2_TenureNeverGrows ==
    (/\ pc = "done"
     /\ strategy = REDUCE_TENURE
     /\ ~EmiNotSufficient(current_emi, new_principal,
                          MonthlyRate(annual_rate)))
        => /\ new_tenure <= remaining_tenure
           /\ response[1].tenure_reduced[1] >= 0

(* ------------------------------- C3 ------------------------------------ *)
\* principal > 0, rate >= 0, tenure > 0 and EMI > 0 for the running call
ValidTerms ==
    /\ GenPrincipal > 0
    /\ annual_rate >= 0
    /\ GenTenure > 0
    /\ GenEmi > 0

\* C3 as stated: for valid terms and any EMI > 0 the last row of the
\* returned schedule has outstanding balance 0.
C3_LastRowZero ==
    (Finished /\ ValidTerms)
        => Len(schedule) > 0 /\ LastRow(schedule).outstanding = 0

\* C3 amended: for valid terms and any EMI that is at least the annuity
\* payment of the principal over tenure_months (P*r*(1+r)^n/((1+r)^n - 1),
\* P/n at zero rate), the last row of the returned schedule has outstanding
\* balance 0; with a smaller EMI the schedule runs tenure_months rows and
\* can end with a positive balance.
C3_LastRowZeroWhenAmortizing ==
    (/\ Finished
     /\ ValidTerms
     /\ AtLeastAnnuity(GenEmi, GenPrincipal, MonthlyRate(annual_rate),
                       GenTenure))
        => Len(schedule) > 0 /\ LastRow(schedule).outstanding = 0

\* C3 witness: a schedule of several rows at a positive rate with an
\* amortizing EMI is about to be returned
C3_Witness ==
    /\ Finished
    /\ ValidTerms
    /\ annual_rate > 0
    /\ AtLeastAnnuity(GenEmi, GenPrincipal, MonthlyRate(annual_rate),
                      GenTenure)
    /\ Len(schedule) >= 3
    /\ LastRow(schedule).outstanding = 0

(* ------------------------------- C4 ------------------------------------ *)
NoNegativeBalance(s) == \A i \in 1..Len(s) : s[i].outstanding >= 0

\* C4: no row of any schedule has a negative outstanding balance, whatever
\* the inputs (non-amortizing EMI, zero or negative starting principal).
C4_NoNegativeOutstanding ==
    /\ NoNegativeBalance(schedule)
    /\ NoNegativeBalance(schedule_before)
    /\ NoNegativeBalance(schedule_after)

\* C4 witness: a schedule that started from a negative principal
\* (prepayment > principal) has a row
C4_Witness ==
    /\ pc = "after"
    /\ new_principal < 0
    /\ Len(schedule) >= 1


(* ------------------------------- C5 ------------------------------------ *)
\* the rows so far are months 1, 2, ... in order, at most tenure_months of
\* them, and none for tenure_months <= 0
ScheduleShape ==
    pc \in {"before", "after"}
        => /\ Len(schedule) <= (IF GenTenure > 0 THEN GenTenure ELSE 0)
           /\ \A i \in 1..Len(schedule) : schedule[i].month = i

\* C5: generate_amortization_schedule always terminates and returns at most
\* tenure_months rows whose month fields are 1, 2, ..., len(schedule) in
\* order; for tenure_months <= 0 it returns an empty schedule.
C5_TerminatesWithinTenure ==
    /\ []ScheduleShape
    /\ <>[](pc \notin {"before", "after"})

\* C5 witness: a schedule that ran its full tenure of several months is
\* about to be returned
C5_Witness ==
    /\ Finished
    /\ GenTenure >= 3
    /\ Len(schedule) = GenTenure
    /\ ~stopped

(* ------------------------------- C6 ------------------------------------ *)
\* C6 as stated: no row follows a row whose recorded outstanding balance
\* is 0, so only the last row can have outstanding = 0.
C6_OnlyLastRowZero ==
    \A i \in 1..(Len(schedule) - 1) : schedule[i].outstanding # 0

\* C6 amended: the schedule stops at the first month in which the running
\* (unrounded) outstanding balance reaches 0: no row follows a row after
\* which the running balance is 0, so the schedule is shorter than
\* tenure_months whenever the EMI pays the loan off early.  (A row before
\* the last can still record 0.00, when its running balance is positive
\* and below half a cent.)
C6_StopsAtZeroBalance ==
    [][(pc \in {"before", "after"} /\ Len(schedule) > 0 /\ outstanding <= 0)
          => Len(schedule') <= Len(schedule)]_vars

\* C6 witness: the loop was left by break before the nominal tenure
C6_Witness ==
    /\ Finished
    /\ stopped
    /\ outstanding = 0
    /\ Len(schedule) >= 2
    /\ Len(schedule) < GenTenure

(* ------------------------------- C7 ------------------------------------ *)
\* C7: under REDUCE_TENURE with current_emi > new_principal * monthly_rate
\* (any rate >= 0), new_tenure is the smallest number of months that
\* amortizes the reduced principal at the unchanged EMI: the after-schedule
\* ends with balance 0, and it needs all new_tenure months (one month less
\* would not do).  Stated for 0 < p < principal and remaining_tenure > 0.
C7_SmallestAmortizingTenure ==
    (/\ pc = "returned"
     /\ strategy = REDUCE_TENURE
     /\ remaining_tenure > 0
     /\ new_principal > 0
     /\ ~EmiNotSufficient(current_emi, new_principal,
                          MonthlyRate(annual_rate)))
        => /\ Len(schedule_after) = new_tenure
           /\ new_tenure > 0
           /\ outstanding = 0
           /\ LastRow(schedule_after).outstanding = 0

(* ------------------------------- C8 ------------------------------------ *)
\* C8 as stated: REDUCE_TENURE with current_emi < principal * monthly_rate
\* returns new_tenure = remaining_tenure.  Stated for 0 < p < principal and
\* remaining_tenure > 0.
C8_FallbackOnPrincipal ==
    (/\ Returned
     /\ strategy = REDUCE_TENURE
     /\ remaining_tenure > 0
     /\ prepayment_amount < principal
     /\ current_emi < TimesRate(principal, MonthlyRate(annual_rate)))
        => new_tenure = remaining_tenure

\* the EMI is below the monthly interest on the reduced principal
BelowInterestOnReduced ==
    /\ strategy = REDUCE_TENURE
    /\ current_emi < TimesRate(principal - prepayment_amount,
                               MonthlyRate(annual_rate))

\* C8 amended: when REDUCE_TENURE is requested with an EMI below the monthly
\* interest on the reduced principal (current_emi < (principal -
\* prepayment_amount) * monthly_rate), calculate_prepayment_impact returns
\* new_tenure = remaining_tenure, without raising and without looping
\* forever.
C8_FallbackOnReducedPrincipal ==
    /\ [](BelowInterestOnReduced => pc # "raised")
    /\ <>[](BelowInterestOnReduced
               => (Returned /\ new_tenure = remaining_tenure))

\* C8 witness: such a call has returned, with a prepayment and several
\* months of tenure
C8_Witness ==
    /\ pc = "returned"
    /\ BelowInterestOnReduced
    /\ remaining_tenure >= 2
    /\ new_tenure = remaining_tenure

(* ------------------------------- C9 ------------------------------------ *)
\* C9: under REDUCE_TENURE new_emi = current_emi, and when current_emi <=
\* new_principal * monthly_rate the result is new_tenure = remaining_tenure
\* (a normal return), with the after-schedule generated over
\* remaining_tenure months at the unchanged EMI.
C9_ReduceTenureKeepsEmi ==
    (Returned /\ strategy = REDUCE_TENURE)
        => /\ new_emi = current_emi
           /\ EmiNotSufficient(current_emi, new_principal,
                               MonthlyRate(annual_rate))
                 => /\ new_tenure = remaining_tenure
                    /\ Len(schedule_after) = remaining_tenure
                    /\ \A i \in 1..Len(schedule_after) :
                           schedule_after[i].emi = current_emi

\* C9 witness: the fallback was taken where the EMI equals the interest on
\* the reduced principal
C9_Witness ==
    /\ pc = "returned"
    /\ strategy = REDUCE_TENURE
    /\ current_emi = TimesRate(new_principal, MonthlyRate(annual_rate))
    /\ remaining_tenure >= 2
    /\ Len(schedule_after) = remaining_tenure

(* ------------------------------- C10 ----------------------------------- *)
\* REDUCE_EMI with current EMI = calculate_emi(principal, rate, tenure) and
\* 0 < p < principal has returned
ConsistentReduceEmi ==
    /\ Returned
    /\ strategy = REDUCE_EMI
    /\ 0 < prepayment_amount
    /\ prepayment_amount < principal
    /\ current_emi = calculate_emi(principal, annual_rate, remaining_tenure)

\* C10 as stated: in that case the after-schedule has exactly
\* remaining_tenure rows.
C10_AfterScheduleFullLength ==
    ConsistentReduceEmi => Len(schedule_after) = remaining_tenure

\* C10 amended: in that case the after-schedule has at most remaining_tenure
\* rows, and exactly remaining_tenure rows whenever the rounded new EMI does
\* not exceed the exact annuity payment of the reduced principal (an EMI
\* rounded up to the cent can close the loan a month early).
C10_AfterScheduleLength ==
    ConsistentReduceEmi
        => /\ Len(schedule_after) <= remaining_tenure
           /\ AtMostAnnuity(new_emi, new_principal, MonthlyRate(annual_rate),
                            remaining_tenure)
                 => Len(schedule_after) = remaining_tenure

\* C10 witness: such a call at a positive rate over several months, with
\* the new EMI not above the annuity payment
C10_Witness ==
    /\ pc = "returned"
    /\ ConsistentReduceEmi
    /\ annual_rate > 0
    /\ remaining_tenure >= 3
    /\ AtMostAnnuity(new_emi, new_principal, MonthlyRate(annual_rate),
                     remaining_tenure)
    /\ new_emi > 0
    /\ Len(schedule_after) = remaining_tenure

(* ------------------------------- C11 ----------------------------------- *)
\* C11 as stated: under REDUCE_EMI with current EMI = calculate_emi(principal,
\* rate, tenure) and 0 < p < principal, the returned new EMI is strictly
\* less than the original EMI.
C11_NewEmiStrictlyLess ==
    ConsistentReduceEmi => new_emi < current_emi

\* C11 amended: in that case the new EMI is never greater than the original
\* EMI, and it is strictly less whenever the prepayment lowers the exact
\* annuity payment by at least 0.01, i.e. the annuity payment of p over
\* remaining_tenure is at least 0.01 (a smaller difference can vanish in
\* the rounding of the two EMIs to the cent).
C11_NewEmiNotGreater ==
    ConsistentReduceEmi
        => /\ new_emi <= current_emi
           /\ AtMostAnnuity(Cents(1), prepayment_amount,
                            MonthlyRate(annual_rate), remaining_tenure)
                 => new_emi < current_emi

\* C11 witness: such a call at a positive rate where the prepayment lowers
\* the annuity payment by at least a cent and the new EMI is lower
C11_Witness ==
    /\ pc = "returned"
    /\ ConsistentReduceEmi
    /\ annual_rate > 0
    /\ remaining_tenure >= 2
    /\ AtMostAnnuity(Cents(1), prepayment_amount, MonthlyRate(annual_rate),
                     remaining_tenure)
    /\ new_emi > 0
    /\ new_emi < current_emi

(* ------------------------------- C12 ----------------------------------- *)
\* C12: for both strategies the interest_saved returned by
\* calculate_prepayment_impact is the sum of the interest fields of the rows
\* of schedule_before minus the sum of the interest fields of the rows of
\* schedule_after, the schedules returned in the same result (and passed on
\* unchanged in the endpoint's response).
C12_InterestSavedFromSchedules ==
    /\ Returned
          => interest_saved = SumInterest(schedule_before)
                                - SumInterest(schedule_after)
    /\ pc = "done"
          => response[1].interest_saved
               = SumInterest(response[1].amortization_before)
                   - SumInterest(response[1].amortization_after)

\* C12 witness: a response whose two schedules both carry interest and
\* differ in their totals
C12_Witness ==
    /\ pc = "done"
    /\ Len(schedule_after) >= 2
    /\ SumInterest(schedule_after) > 0
    /\ SumInterest(schedule_before) > SumInterest(schedule_after)
    /\ response[1].interest_saved > 0

(* ------------------------------- C13 ----------------------------------- *)
\* the recorded balances of s never rise from one row to the next
NonIncreasing(s) ==
    \A i \in 1..(Len(s) - 1) : s[i + 1].outstanding <= s[i].outstanding

\* C13 as stated: within every schedule the outstanding balance is
\* non-increasing from row to row, and the balance of row 1 is at most the
\* starting principal.  Stated for principal > 0, tenure > 0 and EMI > 0.
C13_BalanceNeverRises ==
    (pc \in {"before", "after"} /\ ValidTerms)
        => /\ NonIncreasing(schedule)
           /\ Len(schedule) > 0
                 => Cents(schedule[1].outstanding) <= GenPrincipal

\* C13 amended: for a starting principal >= 0 and an EMI that covers at
\* least the first month's interest (emi >= principal * monthly_rate) the
\* outstanding balance is non-increasing from row to row and the balance of
\* row 1 is at most the starting principal rounded to 2 decimals; with a
\* smaller EMI the balance grows from row to row.
C13_BalanceNeverRisesWhenInterestCovered ==
    (/\ pc \in {"before", "after"}
     /\ GenPrincipal >= 0
     /\ GenEmi >= TimesRate(GenPrincipal, MonthlyRate(annual_rate)))
        => /\ NonIncreasing(schedule)
           /\ Len(schedule) > 0
                 => schedule[1].outstanding <= Round2(GenPrincipal)

\* C13 witness: a schedule at a positive rate whose balance fell in each of
\* three rows
C13_Witness ==
    /\ pc \in {"before", "after"}
    /\ annual_rate > 0
    /\ GenEmi >= TimesRate(GenPrincipal, MonthlyRate(annual_rate))
    /\ Len(schedule) >= 3
    /\ Cents(schedule[1].outstanding) < GenPrincipal
    /\ schedule[2].outstanding < schedule[1].outstanding
    /\ schedule[3].outstanding < schedule[2].outstanding

(* ------------------------------- C14 ----------------------------------- *)
\* recorded interest + principal of a row minus its EMI
RowExcess(row) == Cents(row.interest + row.principal) - row.emi

\* C14 as stated: in every schedule, for every row except possibly the
\* final one, the recorded interest component plus the recorded principal
\* component equals the EMI.  Stated for principal > 0, tenure > 0, EMI > 0.
C14_RowsSumToEmi ==
    (pc \in {"before", "after"} /\ ValidTerms)
        => \A i \in 1..(Len(schedule) - 1) : RowExcess(schedule[i]) = 0

\* C14 amended: in every row except possibly the final one the principal
\* payment is emi - interest uncapped, so the recorded (separately rounded)
\* interest and principal components sum to the EMI within 0.01, and to
\* exactly the EMI when the EMI is a whole number of cents (and neither
\* component is a half cent); only the final row can have its principal
\* capped at the outstanding balance.
C14_RowsSumToEmiWithinCent ==
    pc \in {"before", "after"}
        => \A i \in 1..(Len(schedule) - 1) :
              /\ Abs(RowExcess(schedule[i])) <= Cents(1)
              /\ schedule[i].emi % SubCent = 0
                    => RowExcess(schedule[i]) = 0

\* C14 witness: three rows at a positive rate, the first two carrying
\* interest and principal that sum to the EMI
C14_Witness ==
    /\ pc \in {"before", "after"}
    /\ annual_rate > 0
    /\ Len(schedule) >= 3
    /\ \A i \in 1..2 : /\ schedule[i].interest > 0
                        /\ schedule[i].principal > 0
                        /\ RowExcess(schedule[i]) = 0

(* ------------------------------- C15 ----------------------------------- *)
\* calculate_emi(new_principal, annual_rate, remaining_tenure) has returned
\* new_emi in the REDUCE_EMI branch
EmiComputed ==
    /\ strategy = REDUCE_EMI
    /\ pc \in {"after", "returned", "done"}

\* C15: when the monthly rate is exactly zero, calculate_emi returns
\* principal / tenure_months (straight-line, no interest, no rounding).
C15_ZeroRateStraightLine ==
    (EmiComputed /\ MonthlyRate(annual_rate)[1] = 0)
        => new_emi * remaining_tenure = new_principal

\* C15 witness: a zero-rate EMI over three months or more that is not a
\* whole number of cents
C15_Witness ==
    /\ EmiComputed
    /\ annual_rate = 0
    /\ remaining_tenure >= 3
    /\ new_principal > 0
    /\ new_emi % SubCent # 0

(* ------------------------------- C16 ----------------------------------- *)
\* C16: for every input (principal > 0, rate >= 0, tenure > 0) the value
\* returned by calculate_emi is rounded to 2 decimal places, i.e. it is a
\* whole number of cents.
C16_EmiWholeCents ==
    (EmiComputed /\ new_principal > 0 /\ remaining_tenure > 0)
        => new_emi % SubCent = 0

(* ------------------------------- C17 ----------------------------------- *)
\* c cents minus the exact annuity payment P*r*(1+r)^n / ((1+r)^n - 1) of
\* P cents, for r = a/b > 0 and n > 0, scaled by b * ((a+b)^n - b^n) > 0
AnnuityError(c, P, r, n) ==
    c * r[2] * (Pow(r[2] + r[1], n) - Pow(r[2], n))
        - P * r[1] * Pow(r[2] + r[1], n)

\* half a cent on the same scale
AnnuityHalfCent(r, n) == r[2] * (Pow(r[2] + r[1], n) - Pow(r[2], n))

\* C17: for monthly rate r > 0 and tenure n > 0, calculate_emi(principal,
\* rate, n) is principal * r * (1+r)^n / ((1+r)^n - 1) rounded to 2
\* decimals: a whole number of cents at most half a cent away from the
\* exact value, r = annual_rate / 12 / 100.
C17_AnnuityFormula ==
    (EmiComputed /\ MonthlyRate(annual_rate)[1] > 0)
        => /\ new_emi % SubCent = 0
           /\ 2 * Abs(AnnuityError(new_emi \div SubCent,
                                   new_principal \div SubCent,
                                   MonthlyRate(annual_rate),
                                   remaining_tenure))
                 <= AnnuityHalfCent(MonthlyRate(annual_rate),
                                    remaining_tenure)

\* C17 witness: an EMI over three months or more at a positive rate whose
\* exact value is not a whole number of cents
C17_Witness ==
    /\ EmiComputed
    /\ annual_rate > 0
    /\ remaining_tenure >= 3
    /\ new_principal > 0
    /\ new_emi > 0
    /\ AnnuityError(new_emi \div SubCent, new_principal \div SubCent,
                    MonthlyRate(annual_rate), remaining_tenure) # 0

(* ------------------------------- C18 ----------------------------------- *)
\* C18: in every response of the prepayment endpoint exactly one of new_emi
\* and new_tenure_months is non-null: new_emi iff the strategy is
\* REDUCE_EMI, new_tenure_months iff it is REDUCE_TENURE; tenure_reduced is
\* null for REDUCE_EMI and remaining_tenure_months - new_tenure_months for
\* REDUCE_TENURE.
C18_ExactlyOneOfEmiAndTenure ==
    pc = "done"
        => LET res == response[1]
           IN  /\ (res.new_emi # None) <=> (strategy = REDUCE_EMI)
               /\ (res.new_tenure_months # None)
                     <=> (strategy = REDUCE_TENURE)
               /\ (res.new_emi = None) # (res.new_tenure_months = None)
               /\ strategy = REDUCE_EMI => res.tenure_reduced = None
               /\ strategy = REDUCE_TENURE
                     => res.tenure_reduced
                          = Some(remaining_tenure
                                   - res.new_tenure_months[1])

\* C18 witness: a REDUCE_TENURE response that reports a reduction of at
\* least one month
C18_Witness ==
    /\ pc = "done"
    /\ strategy = REDUCE_TENURE
    /\ response[1].new_emi = None
    /\ response[1].new_tenure_months # None
    /\ response[1].tenure_reduced # None
    /\ response[1].tenure_reduced[1] >= 1

(* ------------------------------- C19 ----------------------------------- *)
\* C19: the endpoint's new_closure_date is the date field of the last row
\* of amortization_after, and it is null exactly when amortization_after is
\* empty; the endpoint answers on an empty after-schedule as well.
C19_ClosureDateIsLastRowDate ==
    pc = "done"
        => LET res == response[1]
               after == res.amortization_after
           IN  /\ (res.new_closure_date = None) <=> (Len(after) = 0)
               /\ Len(after) > 0
                     => res.new_closure_date = Some(LastRow(after).date)

\* C19 witness: the endpoint has answered with an empty after-schedule (the
\* prepayment covers the whole principal under REDUCE_TENURE) and a null
\* closure date
C19_Witness ==
    /\ pc = "done"
    /\ Len(response[1].amortization_after) = 0
    /\ Len(response[1].amortization_before) >= 2
    /\ response[1].new_closure_date = None

(* ------------------------------- C20 ----------------------------------- *)
\* the second of two calls with the same arguments has returned
ReturnedAgain == pc = "returned" /\ first # None

\* C20 as stated: two calls of calculate_prepayment_impact with identical
\* inputs return identical outputs in every field, including every row's
\* date, regardless of when each call is made.
C20_SameResultWheneverCalled ==
    ReturnedAgain => Result = first[1]

\* a schedule with the date of every row left out
WithoutDates(s) ==
    [i \in 1..Len(s) |->
        [month |-> s[i].month, emi |-> s[i].emi,
         principal |-> s[i].principal, interest |-> s[i].interest,
         outstanding |-> s[i].outstanding]]

\* every row of s is dated 30 * month days after one common start date,
\* which is at least `earliest`
DatedFromOneStart(s, earliest) ==
    \A i \in 1..Len(s) :
        /\ s[i].date - 30 * s[i].month = s[1].date - 30 * s[1].month
        /\ s[i].date - 30 * s[i].month >= earliest

\* C20 amended: two calls with identical inputs return identical new_emi,
\* new_tenure, interest_saved and identical rows apart from the dates; the
\* dates of a schedule are 30 * month days after the clock reading of its
\* generate_amortization_schedule call (the default start date), so they
\* are the same only if the clock is read at the same instant.
C20_SameResultApartFromDates ==
    ReturnedAgain
        => /\ new_emi = first[1][1]
           /\ new_tenure = first[1][2]
           /\ interest_saved = first[1][3]
           /\ WithoutDates(schedule_before) = WithoutDates(first[1][4])
           /\ WithoutDates(schedule_after) = WithoutDates(first[1][5])
           /\ DatedFromOneStart(first[1][4], 0)
           /\ DatedFromOneStart(first[1][5], 0)
           /\ Len(first[1][4]) > 0
                 => DatedFromOneStart(schedule_before,
                                      first[1][4][1].date - 30)
           /\ Len(first[1][5]) > 0
                 => DatedFromOneStart(schedule_after,
                                      first[1][5][1].date - 30)

\* C20 witness: the second call has returned schedules of several rows
\* that differ from those of the first call, the clock having advanced
C20_Witness ==
    /\ ReturnedAgain
    /\ Len(schedule_after) >= 2
    /\ schedule_after # first[1][5]
    /\ schedule_before # first[1][4]
    /\ WithoutDates(schedule_after) = WithoutDates(first[1][5])

(* ------------------------------- C21 ----------------------------------- *)
\* the numeric result in frame f is the one calculate_prepayment_impact
\* computes from f's arguments when it runs alone
AsAlone(f) ==
    LET alone == calculate_prepayment_impact(
                     f.principal, f.annual_rate, f.remaining_tenure,
                     f.current_emi, f.prepayment_amount, f.strategy, 0, 0)
    IN  /\ f.new_emi = alone[1]
        /\ f.new_tenure = alone[2]
        /\ f.interest_saved = alone[3]
        /\ WithoutDates(f.schedule_before) = WithoutDates(alone[4])
        /\ WithoutDates(f.schedule_after) = WithoutDates(alone[5])

\* C21: invocations of calculate_prepayment_impact that run interleaved
\* share no mutable state: under every interleaving the numeric result of
\* each (new EMI, new tenure, interest saved, row amounts) is the result of
\* running it alone.
C21_InterleavedAsAlone ==
    /\ pc \in {"returned", "done"} => AsAlone(Frame)
    /\ (parked # None /\ parked[1].pc \in {"returned", "done"})
          => AsAlone(parked[1])

\* C21 witness: an invocation has returned a schedule of two rows, having
\* run while another invocation with different arguments was suspended in
\* the middle of its loop
C21_Witness ==
    /\ pc = "returned"
    /\ Len(schedule_after) >= 2
    /\ parked # None
    /\ parked[1].pc = "after"
    /\ Len(parked[1].schedule) = 1
    /\ ~parked[1].stopped
    /\ parked[1].current_emi # current_emi
    /\ parked[1].strategy # strategy

EmiOverNoMonths == strategy = REDUCE_EMI /\ remaining_tenure = 0

\* the logarithm of the REDUCE_TENURE branch is taken of a number <= 0
LogOfNonPositive ==
    /\ strategy = REDUCE_TENURE
    /\ annual_rate > 0
    /\ current_emi <= 0
    /\ current_emi > TimesRate(principal - prepayment_amount,
                               MonthlyRate(annual_rate))

NonAmortizing ==
    /\ pc \in {"before", "after"}
    /\ GenPrincipal > 0
    /\ EmiNotSufficient(GenEmi, GenPrincipal, MonthlyRate(annual_rate))

\* C23 as stated: when the EMI does not exceed the first month's interest
\* (emi <= principal * monthly_rate, principal > 0),
\* generate_amortization_schedule does not terminate early: it returns
\* exactly tenure_months rows and the outstanding balance never reaches 0
\* in any row.
C23_NoRowAtZero ==
    NonAmortizing
        => /\ \A i \in 1..Len(schedule) : schedule[i].outstanding # 0
           /\ Finished => Len(schedule) = GenTenure

\* C23 amended: for a non-amortizing loan the loop is never left by break,
\* the running balance never falls below the principal, the schedule
\* returned has exactly tenure_months rows, and the balance recorded in a
\* row, which is rounded to cents, is above 0 whenever the principal rounds
\* to a cent or more.
C23_NonAmortizingRunsFullTenure ==
    NonAmortizing
        => /\ ~stopped
           /\ outstanding >= GenPrincipal
           /\ Finished => Len(schedule) = GenTenure
           /\ Round2(GenPrincipal) > 0
                => \A i \in 1..Len(schedule) : schedule[i].outstanding > 0

\* C23 witness: a schedule of three rows or more whose EMI is below the
\* first month's interest is about to be returned, its balance having grown
C23_Witness ==
    /\ Finished
    /\ NonAmortizing
    /\ GenEmi < TimesRate(GenPrincipal, MonthlyRate(annual_rate))
    /\ GenTenure >= 3
    /\ Len(schedule) = GenTenure
    /\ LastRow(schedule).outstanding > schedule[1].outstanding
    /\ schedule[1].outstanding > 0

(* ------------------------------- C24 ----------------------------------- *)
\* C24: under REDUCE_EMI, calculate_prepayment_impact returns new_emi =
\* calculate_emi(principal - prepayment, rate, remaining_tenure) and
\* new_tenure = remaining_tenure unchanged, and schedule_after is exactly
\* generate_amortization_schedule(principal - prepayment, rate, new_emi,
\* remaining_tenure) from the start date that call took, with every row
\* carrying emi = new_emi.
C24_ReduceEmiResult ==
    (Returned /\ strategy = REDUCE_EMI)
        => /\ new_emi = calculate_emi(principal - prepayment_amount,
                                      annual_rate, remaining_tenure)
           /\ new_tenure = remaining_tenure
           /\ schedule_after =
                  generate_amortization_schedule(
                      principal - prepayment_amount, annual_rate, new_emi,
                      remaining_tenure, start_date)
           /\ \A i \in 1..Len(schedule_after) :
                  schedule_after[i].emi = new_emi

\* C24 witness: a REDUCE_EMI call has returned a schedule_after of two rows
\* or more whose EMI differs from the original EMI
C24_Witness ==
    /\ Returned
    /\ strategy = REDUCE_EMI
    /\ Len(schedule_after) >= 2
    /\ new_emi # current_emi
    /\ new_emi > 0
    /\ schedule_after[2].emi = new_emi

(* ------------------------------- C25 ----------------------------------- *)
\* a call with positive principal and EMI whose prepayment covers the whole
\* principal
PrepaidInFull ==
    /\ principal > 0
    /\ current_emi > 0
    /\ prepayment_amount >= principal

\* what the endpoint answers to a REDUCE_TENURE request at a positive rate
\* that is prepaid in full
TenureBranchPrepaidInFull ==
    (strategy = REDUCE_TENURE /\ annual_rate > 0)
        => /\ new_tenure <= 0
           /\ schedule_after = <<>>
           /\ pc = "done"
                => /\ response[1].new_closure_date = None
                   /\ response[1].tenure_reduced # None
                   /\ response[1].tenure_reduced[1] >= remaining_tenure
                   /\ response[1].new_tenure_months = Some(new_tenure)

\* C25 as stated: a prepayment amount >= principal is not rejected: under
\* REDUCE_TENURE with rate > 0 the new tenure is <= 0, schedule_after is
\* empty, the endpoint's new_closure_date is null and tenure_reduced >=
\* remaining_tenure_months; under REDUCE_EMI schedule_after has exactly one
\* row with outstanding 0.
C25_OneRowAfterFullPrepayment ==
    (Returned /\ PrepaidInFull)
        => /\ TenureBranchPrepaidInFull
           /\ strategy = REDUCE_EMI
                => /\ Len(schedule_after) = 1
                   /\ schedule_after[1].outstanding = 0

\* C25 amended: the REDUCE_TENURE part as stated; under REDUCE_EMI the
\* first row of schedule_after records outstanding 0, and it is the only
\* row when principal - prepayment is 0 or at most -0.01.  Between -0.01
\* and 0 the EMI, rounded to -0.01, can overshoot the negative balance, and
\* the schedule goes on with a positive balance.
C25_PrepaidInFull ==
    (Returned /\ PrepaidInFull)
        => /\ TenureBranchPrepaidInFull
           /\ strategy = REDUCE_EMI
                => /\ Len(schedule_after) >= 1
                   /\ schedule_after[1].outstanding = 0
                   /\ (new_principal = 0 \/ new_principal <= -Cents(1))
                        => Len(schedule_after) = 1
                   /\ pc = "done"
                        => response[1].amortization_after = schedule_after

\* C25 witness: the endpoint has answered a REDUCE_TENURE request whose
\* prepayment exceeds the principal, with a negative new tenure
C25_Witness ==
    /\ pc = "done"
    /\ PrepaidInFull
    /\ prepayment_amount > principal
    /\ strategy = REDUCE_TENURE
    /\ annual_rate > 0
    /\ new_tenure < 0
    /\ response[1].new_closure_date = None
    /\ response[1].tenure_reduced[1] > remaining_tenure

(* ------------------------------- C26 ----------------------------------- *)
\* C26: after any sequence or interleaving of report generation requests
\* there is at most one SavingsReport per (user_id, report_type, period): a
\* request for a key that already has a report returns the stored report
\* and creates no new one, also when two requests for the same key overlap
\* between the existence check and the insert.
C26_OneReportPerKey ==
    /\ \A i, j \in 1..Len(reports) :
          (/\ reports[i].user_id = reports[j].user_id
           /\ reports[i].report_type = reports[j].report_type
           /\ reports[i].period = reports[j].period) => i = j
    /\ \A h \in Handlers : report_req[h].pc # "failed"

(* ------------------------------- C27 ----------------------------------- *)
\* C27: a market-simulator cycle is all-or-nothing: if an exception occurs
\* anywhere in a cycle, the rollback leaves no loan rate change, bank rate
\* change or rate-change notification of that cycle persisted; otherwise
\* all of them are persisted together.
C27_CycleAllOrNothing ==
    sim.outcome = "rolled back"
        => <<loans, bank_rates, notifications>> = sim.start

(* ------------------------------- C28 ----------------------------------- *)
\* the rate lies in [6.0, 12.0]
WithinBand(rate) == 6000 <= rate /\ rate <= 12000

\* every rate of the tables loans and bank_rates lies in [6.0, 12.0]
AllRatesInBand ==
    /\ \A i \in 1..Len(loans) : WithinBand(loans[i].interest_rate)
    /\ \A i \in 1..Len(bank_rates) :
          WithinBand(bank_rates[i].interest_rate)

\* a step of the simulator writes to the tables only rates that lie in the
\* band and stand in relation Stepped to the source rate of their bank, and
\* adds only notifications of such a write
SimWrites(Stepped(_, _)) ==
    LET ok(bank, rate) ==
            /\ sim.pc = "running"
            /\ bank \in DOMAIN sim.source
            /\ WithinBand(rate)
            /\ Stepped(sim.source[bank], rate)
    IN  /\ Len(loans') = Len(loans)
        /\ Len(bank_rates') = Len(bank_rates)
        /\ \A i \in 1..Len(loans) :
              loans'[i] # loans[i]
                 => /\ loans'[i] = [loans[i] EXCEPT !.interest_rate =
                                       loans'[i].interest_rate]
                    /\ ok(loans[i].bank_name, loans'[i].interest_rate)
        /\ \A i \in 1..Len(bank_rates) :
              bank_rates'[i] # bank_rates[i]
                 => /\ bank_rates'[i].bank_name = bank_rates[i].bank_name
                    /\ ok(bank_rates[i].bank_name,
                          bank_rates'[i].interest_rate)
        /\ Len(notifications') >= Len(notifications)
        /\ \A k \in 1..Len(notifications') :
              IF k <= Len(notifications)
              THEN notifications'[k] = notifications[k]
              ELSE LET n == notifications'[k]
                   IN  /\ ok(n.bank_name, n.new_rate)
                       /\ n.old_rate = sim.source[n.bank_name]
                       /\ loans'[n.loan_id].interest_rate = n.new_rate
                       /\ loans'[n.loan_id].user_id = n.user_id

SteppedExactly(source, rate) == Abs(rate - source) = RateStep
SteppedAndRounded(source, rate) ==
    \E change \in {-RateStep, RateStep} : rate = RoundRate(source + change)

\* C28 as stated: every interest rate the market simulator writes to a
\* BankRate or Loan row lies in [6.0, 12.0] and differs from the bank's
\* previous source rate by exactly 0.05; a step that would leave the band
\* is skipped with no write and no notification, so rates that start
\* inside the band stay inside it after any number of cycles.
C28_WritesStepExactly ==
    []AllRatesInBand /\ [][SimWrites(SteppedExactly)]_vars

\* C28 amended: every rate written lies in [6.0, 12.0] and is
\* round(source + 0.05, 2) or round(source - 0.05, 2) for the bank's source
\* rate, which is 0.05 away from the source only if the source has two
\* decimals; a step that would leave the band writes nothing and notifies
\* nobody, and rates that start inside the band stay inside it.
C28_WritesStepRounded ==
    []AllRatesInBand /\ [][SimWrites(SteppedAndRounded)]_vars

\* C28 witness: two cycles have been committed, a rate has been written and
\* notified, and a loan that started at the ceiling is still there
C28_Witness ==
    /\ sim.outcome = "committed"
    /\ sim.cycles = 2
    /\ Len(notifications) >= 2
    /\ loans[1].interest_rate = RateCeiling
    /\ loans[2].interest_rate # 8400
    /\ \E i \in 1..Len(bank_rates) :
          bank_rates[i].interest_rate = RateFloor + RateStep

(* ------------------------------- C29 ----------------------------------- *)
\* the status or the notes of a row that exists before and after the step
\* differ
StatusOrNotesChange ==
    \E i \in 1..Len(negotiations) :
        /\ i <= Len(negotiations')
        /\ \/ negotiations'[i].status # negotiations[i].status
           \/ negotiations'[i].admin_notes # negotiations[i].admin_notes

C30_StatusNeverBackToPending ==
    /\ [](\A i \in 1..Len(negotiations) :
            negotiations[i].status \in {"pending", "approved", "rejected"})
    /\ [][/\ Len(negotiations') >= Len(negotiations)
           /\ \A i \in 1..Len(negotiations') :
                 IF i > Len(negotiations)
                 THEN negotiations'[i].status = "pending"
                 ELSE negotiations[i].status \in {"approved", "rejected"}
                         => negotiations'[i].status # "pending"]_vars

\* C30 witness: a request that was approved, as its owner was notified, is
\* now rejected, and a second request is pending
C30_Witness ==
    /\ Len(negotiations) = 2
    /\ negotiations[1].status = "rejected"
    /\ negotiations[2].status = "pending"
    /\ \E k \in 1..Len(notifications) :
          /\ notifications[k].negotiation_id = 1
          /\ notifications[k].status = "approved"

=============================================================================
